---- MODULE Spec2Model ----
EXTENDS Integers, Sequences, FiniteSets, Bags, TLC

(***************************************************************************)
(* The query node's segment registry (segmentManager) of                   *)
(* internal/querynodev2/segments/manager.go: the growing and the sealed    *)
(* map under one reader-writer lock, versioned Put, filtered iteration,    *)
(* pinning by the segments' read locks, removal and release.               *)
(***************************************************************************)

\* ---------------------------------------------------------------- bounds
MaxVersion == 2
MaxPins == 1
MaxCalls == 5
MaxTs == 3
MaxTsLen == 3

\* ------------------------------------------------------- segment handles
SegmentTypeGrowing == "Growing"
SegmentTypeSealed == "Sealed"
SegmentStateNone == "None"
SegmentLevel_L0 == "L0"
SegmentLevel_L1 == "L1"

DataScope_Streaming == "Streaming"
DataScope_Historical == "Historical"
DataScope_All == "All"
DataScopes == {DataScope_Streaming, DataScope_Historical, DataScope_All}

Nil == "nil"
IDs == {7, 11}

\* The Segment handles the callers own: identity, type and level never
\* change, the version is the handle's initial version.
Seg ==
  [g7  |-> [id |-> 7,  type |-> SegmentTypeGrowing, level |-> SegmentLevel_L1, version |-> 1],
   s7  |-> [id |-> 7,  type |-> SegmentTypeSealed,  level |-> SegmentLevel_L1, version |-> 1],
   s7b |-> [id |-> 7,  type |-> SegmentTypeSealed,  level |-> SegmentLevel_L1, version |-> 2],
   z11 |-> [id |-> 11, type |-> SegmentTypeSealed,  level |-> SegmentLevel_L0, version |-> 1]]

Handles == DOMAIN Seg

VARIABLES
  growingSegments,  \* id -> handle or Nil
  sealedSegments,   \* id -> handle or Nil
  version,          \* handle -> its current version (Version / CASVersion)
  rlocks,           \* handle -> read locks held on the segment (RLock / RUnlock)
  relCount,         \* handle -> completed Release calls with scope All
  held,             \* handle -> references the callers hold as pinned
  writer,           \* the call that holds mgr.mu as a writer while it waits in a Release
  deferred,         \* bag of release lists that run outside mgr.mu
  upd,              \* UpdateBy calls in flight (they hold mgr.mu as readers)
  fatal,            \* the process died in RUnlock of an unlocked RWMutex
  calls,            \* the calls made so far
  last,             \* the last call and what it returned
  DiskCache,        \* id -> the sealed segment the disk cache holds, or Nil
  finalizer,        \* the last call of the cache's finalizer
  ld,               \* the calls of the cache's loader in flight
  sf,               \* singleflight.Group: key -> the call in flight, or NoFlight
  flights,          \* the field loads started so far
  sizer,            \* the last call of the cache's sizer
  msg               \* the last message unmarshalled from a stream

vars == <<growingSegments, sealedSegments, version, rlocks, relCount, held,
          writer, deferred, upd, fatal, calls, last, DiskCache, finalizer,
          ld, sf, flights, sizer, msg>>

registryVars == <<growingSegments, sealedSegments, version, rlocks, relCount, held,
                  writer, deferred, upd, fatal>>
cacheVars == <<DiskCache, finalizer>>
loadVars == <<ld, sf, flights, sizer>>

NoWriter == [op |-> "none"]
Idle == [pc |-> "idle"]
Updaters == {1, 2}
Loaders == {1, 2}
\* no call of the key is in flight in the singleflight.Group
NoFlight == [leader |-> 0, flight |-> 0]

\* ------------------------------------------------------- generic helpers
SeqsUpTo(S, n) == UNION {[1..k -> S] : k \in 0..n}

RECURSIVE Perms(_)
Perms(S) ==
  IF S = {} THEN {<<>>}
  ELSE UNION {{<<x>> \o p : p \in Perms(S \ {x})} : x \in S}

Range(s) == {s[i] : i \in DOMAIN s}

\* number of occurrences of h in the sequence s
Count(s, h) == Cardinality({i \in DOMAIN s : s[i] = h})

\* ---------------------------------------------------------- the filters
WithID(id) == [k |-> "ID", id |-> id]
WithType(typ) == [k |-> "Type", type |-> typ]
WithLevel(level) == [k |-> "Level", level |-> level]

FilterUniverse ==
  {WithID(i) : i \in IDs}
    \cup {WithType(t) : t \in {SegmentTypeGrowing, SegmentTypeSealed}}
    \cup {WithLevel(l) : l \in {SegmentLevel_L0, SegmentLevel_L1}}

\* the filter lists the calls are made with
FilterLists == {<<>>} \cup {<<f>> : f \in FilterUniverse}

\* SegmentFilter.Filter
Filter(f, h) ==
  CASE f.k = "ID" -> Seg[h].id = f.id
    [] f.k = "Type" -> Seg[h].type = f.type
    [] f.k = "Level" -> Seg[h].level = f.level

\* filter(segment, filters...): the AND of every filter's predicate
filter(h, filters) == \A i \in DOMAIN filters : Filter(filters[i], h)

\* the hints rangeWithFilter extracts: the last type hint wins, the id
\* hints are united, every other filter goes to otherFilters
TypeHints(filters) == SelectSeq(filters, LAMBDA f : f.k = "Type")
IDHints(filters) == SelectSeq(filters, LAMBDA f : f.k = "ID")
hasSegType(filters) == TypeHints(filters) # <<>>
hasSegIDs(filters) == IDHints(filters) # <<>>
segType(filters) ==
  IF hasSegType(filters)
  THEN TypeHints(filters)[Len(TypeHints(filters))].type
  ELSE SegmentStateNone
segmentIDs(filters) == {IDHints(filters)[i].id : i \in DOMAIN IDHints(filters)}
otherFilters(filters) == SelectSeq(filters, LAMBDA f : f.k \notin {"Type", "ID"})
mergedFilter(filters, h) ==
  \A i \in DOMAIN otherFilters(filters) : Filter(otherFilters(filters)[i], h)

candidates(filters) ==
  CASE segType(filters) = SegmentTypeSealed -> {SegmentTypeSealed}
    [] segType(filters) = SegmentTypeGrowing -> {SegmentTypeGrowing}
    [] OTHER -> IF ~hasSegType(filters)
                THEN {SegmentTypeSealed, SegmentTypeGrowing}
                ELSE {}

MapOf(typ) == IF typ = SegmentTypeGrowing THEN growingSegments ELSE sealedSegments

\* the segments of one candidate map the visitor is called for
Matched(typ, filters) ==
  LET scan == IF hasSegIDs(filters) THEN segmentIDs(filters) \cap IDs ELSE IDs
  IN {MapOf(typ)[id] : id \in {i \in scan : /\ MapOf(typ)[i] # Nil
                                             /\ mergedFilter(filters, MapOf(typ)[i])}}

\* rangeWithFilter: the visits it can make, one list per candidate map; Go
\* iterates maps and sets in an unspecified order
rangeWithFilter(filters) ==
  LET lists(typ) == {[t |-> typ, hs |-> p] : p \in Perms(Matched(typ, filters))}
      cs == candidates(filters)
  IN CASE cs = {} -> {<<>>}
       [] Cardinality(cs) = 1 -> {<<l>> : l \in lists(CHOOSE t \in cs : TRUE)}
       [] OTHER -> {<<a, b>> : a \in lists(SegmentTypeSealed), b \in lists(SegmentTypeGrowing)}
                     \cup {<<b, a>> : a \in lists(SegmentTypeSealed), b \in lists(SegmentTypeGrowing)}

\* the visits of a plan in order
RECURSIVE Flatten(_)
Flatten(plan) == IF plan = <<>> THEN <<>> ELSE Head(plan).hs \o Flatten(Tail(plan))

\* ---------------------------------------------- the Segment's own locking
\* RLock refuses a segment that has been released
RLockFails(h) == relCount[h] > 0
\* Release takes the segment's lock exclusively: it waits for the readers
CanRelease(h) == rlocks[h] = 0

\* the handles some Release call is waiting for or scheduled on
Pending ==
  (IF writer = NoWriter THEN {} ELSE Range(writer.rel) \cup Range(writer.spawn))
    \cup UNION {Range(w) : w \in BagToSet(deferred)}

\* run the Release calls of the list rel, in order, up to the first one
\* that has to wait: what is left of the list, and the release counts
RECURSIVE Blocked(_)
Blocked(rel) ==
  IF rel = <<>> \/ ~CanRelease(Head(rel)) THEN rel ELSE Blocked(Tail(rel))

Released(rc, done) == [h \in Handles |-> rc[h] + Count(done, h)]

Spawn(list) == IF list = <<>> THEN deferred ELSE deferred (+) SetToBag({list})

NoReaders ==
  /\ \A u \in Updaters : upd[u] = Idle
  /\ \A l \in Loaders : ld[l].pc \in {"idle", "size"}
\* a caller starts a call
Call == ~fatal /\ calls < MaxCalls /\ calls' = calls + 1
CanLock == Call /\ writer = NoWriter /\ NoReaders
CanRLock == Call /\ writer = NoWriter

\* a writer that holds mgr.mu runs its Release calls and, when none of
\* them has to wait any more, unlocks and starts its release goroutine
Finish(op, rel, spawn) ==
  LET rest == Blocked(rel)
      done == SubSeq(rel, 1, Len(rel) - Len(rest))
  IN /\ relCount' = Released(relCount, done)
     /\ IF rest = <<>>
        THEN /\ writer' = NoWriter
             /\ deferred' = Spawn(spawn)
        ELSE /\ writer' = [op |-> op, rel |-> rest, spawn |-> spawn]
             /\ deferred' = deferred

Init ==
  /\ growingSegments = [i \in IDs |-> Nil]
  /\ sealedSegments = [i \in IDs |-> Nil]
  /\ version = [h \in Handles |-> Seg[h].version]
  /\ rlocks = [h \in Handles |-> 0]
  /\ relCount = [h \in Handles |-> 0]
  /\ held = [h \in Handles |-> 0]
  /\ writer = NoWriter
  /\ deferred = EmptyBag
  /\ upd = [u \in Updaters |-> Idle]
  /\ fatal = FALSE
  /\ calls = 0
  /\ last = [op |-> "init"]
  /\ DiskCache = [i \in IDs |-> Nil]
  /\ finalizer = [op |-> "none"]
  /\ ld = [l \in Loaders |-> Idle]
  /\ sf = [i \in IDs |-> NoFlight]
  /\ flights = 0
  /\ sizer = [op |-> "none"]
  /\ msg = [op |-> "none"]

\* ------------------------------------------------------------------- Put
\* mutant: a Put of an equal version replaces the stored segment
RECURSIVE PutLoopEqual(_, _)
PutLoopEqual(segments, st) ==
  IF segments = <<>> THEN st
  ELSE LET segment == Head(segments)
           oldSegment == st.targetMap[Seg[segment].id]
       IN IF oldSegment # Nil /\ version[oldSegment] > version[segment]
          THEN PutLoopEqual(Tail(segments), [st EXCEPT !.rejected = Append(@, segment)])
          ELSE PutLoopEqual(Tail(segments),
                 [st EXCEPT !.targetMap[Seg[segment].id] = segment,
                            !.replacedSegment =
                               IF oldSegment # Nil THEN Append(@, oldSegment) ELSE @])

\* the loop of Put over the segments: the target map, the rejected
\* segments (released at once) and the replaced ones (released later)
RECURSIVE PutLoop(_, _)
PutLoop(segments, st) ==
  IF segments = <<>> THEN st
  ELSE LET segment == Head(segments)
           oldSegment == st.targetMap[Seg[segment].id]
       IN IF oldSegment # Nil /\ version[oldSegment] >= version[segment]
          THEN PutLoop(Tail(segments), [st EXCEPT !.rejected = Append(@, segment)])
          ELSE PutLoop(Tail(segments),
                 [st EXCEPT !.targetMap[Seg[segment].id] = segment,
                            !.replacedSegment =
                               IF oldSegment # Nil THEN Append(@, oldSegment) ELSE @])

\* mutant: Put writes the map of the other segment type
PutIntoOther(segmentType, segments) ==
  LET st == PutLoop(segments, [targetMap |-> MapOf(segmentType),
                               rejected |-> <<>>, replacedSegment |-> <<>>])
  IN /\ CanLock
     /\ IF segmentType = SegmentTypeGrowing
        THEN sealedSegments' = st.targetMap /\ UNCHANGED growingSegments
        ELSE growingSegments' = st.targetMap /\ UNCHANGED sealedSegments
     /\ Finish("Put", st.rejected, st.replacedSegment)
     /\ last' = [op |-> "Put", type |-> segmentType, segments |-> segments,
                 rejected |-> st.rejected, replaced |-> st.replacedSegment,
                 before |-> <<growingSegments, sealedSegments>>]
     /\ UNCHANGED <<version, rlocks, held, upd, fatal>>

\* mutant: Put takes the sealed map as its target whatever the segment type
PutIntoSealed(segmentType, segments) ==
  LET st == PutLoop(segments, [targetMap |-> sealedSegments,
                               rejected |-> <<>>, replacedSegment |-> <<>>])
  IN /\ CanLock
     /\ sealedSegments' = st.targetMap /\ UNCHANGED growingSegments
     /\ Finish("Put", st.rejected, st.replacedSegment)
     /\ last' = [op |-> "Put", type |-> segmentType, segments |-> segments,
                 rejected |-> st.rejected, replaced |-> st.replacedSegment,
                 before |-> <<growingSegments, sealedSegments>>]
     /\ UNCHANGED <<version, rlocks, held, upd, fatal>>

PutInto(segmentType, segments) ==
  LET st == PutLoop(segments, [targetMap |-> MapOf(segmentType),
                               rejected |-> <<>>, replacedSegment |-> <<>>])
  IN /\ CanLock
     /\ IF segmentType = SegmentTypeGrowing
        THEN growingSegments' = st.targetMap /\ UNCHANGED sealedSegments
        ELSE sealedSegments' = st.targetMap /\ UNCHANGED growingSegments
     /\ Finish("Put", st.rejected, st.replacedSegment)
     /\ last' = [op |-> "Put", type |-> segmentType, segments |-> segments,
                 rejected |-> st.rejected, replaced |-> st.replacedSegment,
                 before |-> <<growingSegments, sealedSegments>>]
     /\ UNCHANGED <<version, rlocks, held, upd, fatal>>

\* the handles a caller can still pass to Put: not released, and not
\* handed to a Release that is waiting or scheduled
Live == {h \in Handles : relCount[h] = 0 /\ h \notin Pending}

Put(segmentType, segments) ==
  /\ segments # <<>>
  /\ \A i \in DOMAIN segments :
        segments[i] \in Live /\ Seg[segments[i]].type = segmentType
  /\ PutInto(segmentType, segments)

\* a Put whose segmentType argument is not the Type() of every segment
PutAny(segmentType, segments) ==
  /\ segments # <<>>
  /\ \A i \in DOMAIN segments : segments[i] \in Live
  /\ \E i \in DOMAIN segments : Seg[segments[i]].type # segmentType
  /\ PutInto(segmentType, segments)

\* mutant: a segment type that is neither Growing nor Sealed is taken for
\* Sealed, and the panic comes after the loop
PutPanicsLate(segmentType, segments) ==
  LET st == PutLoop(segments, [targetMap |-> sealedSegments,
                               rejected |-> <<>>, replacedSegment |-> <<>>])
  IN /\ segmentType \notin {SegmentTypeGrowing, SegmentTypeSealed}
     /\ segments # <<>>
     /\ \A i \in DOMAIN segments : segments[i] \in Live
     /\ CanLock
     /\ sealedSegments' = st.targetMap /\ UNCHANGED growingSegments
     /\ Finish("Put", st.rejected, st.replacedSegment)
     /\ last' = [op |-> "PutPanic", type |-> segmentType, segments |-> segments]
     /\ UNCHANGED <<version, rlocks, held, upd, fatal>>

\* Put with a segment type that is neither Growing nor Sealed: the switch
\* panics right after mgr.mu.Lock, and the deferred Unlock runs
PutPanics(segmentType, segments) ==
  /\ segmentType \notin {SegmentTypeGrowing, SegmentTypeSealed}
  /\ segments # <<>>
  /\ \A i \in DOMAIN segments : segments[i] \in Live
  /\ CanLock
  /\ last' = [op |-> "PutPanic", type |-> segmentType, segments |-> segments]
  /\ UNCHANGED <<growingSegments, sealedSegments, version, rlocks, relCount, held,
                 writer, deferred, upd, fatal>>

\* ---------------------------------------------------------------- Remove
removeSegmentWithType(typ, segmentID) ==
  CASE typ = SegmentTypeGrowing -> growingSegments[segmentID]
    [] typ = SegmentTypeSealed -> sealedSegments[segmentID]
    [] OTHER -> Nil

Without(map, ids) == [i \in IDs |-> IF i \in ids THEN Nil ELSE map[i]]

\* mutant: the scope All removes the growing segment only
RemoveStreamingOnly(segmentID, scope) ==
  LET growing == IF scope \in {DataScope_Streaming, DataScope_All}
                 THEN removeSegmentWithType(SegmentTypeGrowing, segmentID) ELSE Nil
      sealed == IF scope \in {DataScope_Historical}
                THEN removeSegmentWithType(SegmentTypeSealed, segmentID) ELSE Nil
      list == (IF growing # Nil THEN <<growing>> ELSE <<>>)
                \o (IF sealed # Nil THEN <<sealed>> ELSE <<>>)
  IN /\ CanLock
     /\ growingSegments' = IF growing # Nil THEN Without(growingSegments, {segmentID})
                           ELSE growingSegments
     /\ sealedSegments' = IF sealed # Nil THEN Without(sealedSegments, {segmentID})
                          ELSE sealedSegments
     /\ deferred' = Spawn(list)
     /\ last' = [op |-> "Remove", id |-> segmentID, scope |-> scope,
                 removeGrowing |-> IF growing # Nil THEN 1 ELSE 0,
                 removeSealed |-> IF sealed # Nil THEN 1 ELSE 0]
     /\ UNCHANGED <<version, rlocks, relCount, held, writer, upd, fatal>>

\* mutant: Remove deletes the id from both maps whatever the scope
RemoveIgnoresScope(segmentID, scope) ==
  LET growing == IF scope \in DataScopes
                 THEN removeSegmentWithType(SegmentTypeGrowing, segmentID) ELSE Nil
      sealed == IF scope \in DataScopes
                THEN removeSegmentWithType(SegmentTypeSealed, segmentID) ELSE Nil
      list == (IF growing # Nil THEN <<growing>> ELSE <<>>)
                \o (IF sealed # Nil THEN <<sealed>> ELSE <<>>)
  IN /\ CanLock
     /\ growingSegments' = IF growing # Nil THEN Without(growingSegments, {segmentID})
                           ELSE growingSegments
     /\ sealedSegments' = IF sealed # Nil THEN Without(sealedSegments, {segmentID})
                          ELSE sealedSegments
     /\ deferred' = Spawn(list)
     /\ last' = [op |-> "Remove", id |-> segmentID, scope |-> scope,
                 removeGrowing |-> IF growing # Nil THEN 1 ELSE 0,
                 removeSealed |-> IF sealed # Nil THEN 1 ELSE 0]
     /\ UNCHANGED <<version, rlocks, relCount, held, writer, upd, fatal>>

Remove(segmentID, scope) ==
  LET growing == IF scope \in {DataScope_Streaming, DataScope_All}
                 THEN removeSegmentWithType(SegmentTypeGrowing, segmentID) ELSE Nil
      sealed == IF scope \in {DataScope_Historical, DataScope_All}
                THEN removeSegmentWithType(SegmentTypeSealed, segmentID) ELSE Nil
      list == (IF growing # Nil THEN <<growing>> ELSE <<>>)
                \o (IF sealed # Nil THEN <<sealed>> ELSE <<>>)
  IN /\ CanLock
     /\ growingSegments' = IF growing # Nil THEN Without(growingSegments, {segmentID})
                           ELSE growingSegments
     /\ sealedSegments' = IF sealed # Nil THEN Without(sealedSegments, {segmentID})
                          ELSE sealedSegments
     /\ deferred' = Spawn(list)
     /\ last' = [op |-> "Remove", id |-> segmentID, scope |-> scope,
                 removeGrowing |-> IF growing # Nil THEN 1 ELSE 0,
                 removeSealed |-> IF sealed # Nil THEN 1 ELSE 0]
     /\ UNCHANGED <<version, rlocks, relCount, held, writer, upd, fatal>>

\* mutant: RemoveBy releases the removed segments before it unlocks mgr.mu
RemoveByUnderLock(filters) ==
  \E plan \in rangeWithFilter(filters) :
    LET gone(typ) == UNION {{Seg[h].id : h \in Range(plan[i].hs)} :
                              i \in {j \in DOMAIN plan : plan[j].t = typ}}
    IN /\ CanLock
       /\ growingSegments' = Without(growingSegments, gone(SegmentTypeGrowing))
       /\ sealedSegments' = Without(sealedSegments, gone(SegmentTypeSealed))
       /\ Finish("RemoveBy", Flatten(plan), <<>>)
       /\ last' = [op |-> "RemoveBy", filters |-> filters,
                   removeGrowing |-> Cardinality(gone(SegmentTypeGrowing)),
                   removeSealed |-> Cardinality(gone(SegmentTypeSealed))]
       /\ UNCHANGED <<version, rlocks, held, upd, fatal>>

RemoveBy(filters) ==
  \E plan \in rangeWithFilter(filters) :
    LET gone(typ) == UNION {{Seg[h].id : h \in Range(plan[i].hs)} :
                              i \in {j \in DOMAIN plan : plan[j].t = typ}}
    IN /\ CanLock
       /\ growingSegments' = Without(growingSegments, gone(SegmentTypeGrowing))
       /\ sealedSegments' = Without(sealedSegments, gone(SegmentTypeSealed))
       /\ deferred' = Spawn(Flatten(plan))
       /\ last' = [op |-> "RemoveBy", filters |-> filters,
                   removeGrowing |-> Cardinality(gone(SegmentTypeGrowing)),
                   removeSealed |-> Cardinality(gone(SegmentTypeSealed))]
       /\ UNCHANGED <<version, rlocks, relCount, held, writer, upd, fatal>>

\* Clear deletes and releases every segment while it holds mgr.mu
Clear ==
  \E g \in Perms({growingSegments[i] : i \in {j \in IDs : growingSegments[j] # Nil}}),
     s \in Perms({sealedSegments[i] : i \in {j \in IDs : sealedSegments[j] # Nil}}) :
    /\ CanLock
    /\ growingSegments' = [i \in IDs |-> Nil]
    /\ sealedSegments' = [i \in IDs |-> Nil]
    /\ Finish("Clear", g \o s, <<>>)
    /\ last' = [op |-> "Clear"]
    /\ UNCHANGED <<version, rlocks, held, upd, fatal>>

\* the writer that waited in a Release goes on when the readers are gone
WriterResume ==
  /\ ~fatal /\ UNCHANGED calls
  /\ writer # NoWriter
  /\ CanRelease(Head(writer.rel))
  /\ Finish(writer.op, writer.rel, writer.spawn)
  /\ UNCHANGED <<growingSegments, sealedSegments, version, rlocks, held, upd, fatal, last>>

\* one Release of a list that runs outside mgr.mu: remove(segment)
remove(list) ==
  /\ ~fatal /\ UNCHANGED calls
  /\ BagIn(list, deferred)
  /\ CanRelease(Head(list))
  /\ relCount' = Released(relCount, <<Head(list)>>)
  /\ deferred' = Spawn(Tail(list)) (-) SetToBag({list})
  /\ UNCHANGED <<growingSegments, sealedSegments, version, rlocks, held, writer, upd, fatal, last>>

\* ----------------------------------------------------------- GetAndPinBy
ErrSegmentNotLoaded == "SegmentNotLoaded"
ErrSegmentReleased == "SegmentReleased"

\* RUnlock of every segment of the list
RECURSIVE RUnlockAll(_, _)
RUnlockAll(rl, list) ==
  IF list = <<>> THEN rl
  ELSE RUnlockAll([rl EXCEPT ![Head(list)] = @ - 1], Tail(list))

\* mutant: the visitor does not skip the segments of level L0
RECURSIVE PinVisitL0(_, _)
PinVisitL0(hs, st) ==
  IF hs = <<>> THEN st
  ELSE LET segment == Head(hs)
       IN IF FALSE
          THEN PinVisitL0(Tail(hs), [st EXCEPT !.again = st.failed])
          ELSE IF RLockFails(segment)
               THEN [st EXCEPT !.err = ErrSegmentReleased, !.again = st.failed,
                               !.failed = TRUE]
               ELSE PinVisitL0(Tail(hs),
                      [st EXCEPT !.err = Nil,
                                 !.again = st.failed,
                                 !.ret = Append(@, segment),
                                 !.rl[segment] = @ + 1])

\* the visitor of GetAndPinBy over the segments of one candidate map; a
\* visitor that returns false ends the loop over that map only; again
\* notes a call of the visitor after it has returned false
RECURSIVE PinVisit(_, _)
PinVisit(hs, st) ==
  IF hs = <<>> THEN st
  ELSE LET segment == Head(hs)
       IN IF Seg[segment].level = SegmentLevel_L0
          THEN PinVisit(Tail(hs), [st EXCEPT !.again = st.failed])
          ELSE IF RLockFails(segment)
               THEN [st EXCEPT !.err = ErrSegmentReleased, !.again = st.failed,
                               !.failed = TRUE]
               ELSE PinVisit(Tail(hs),
                      [st EXCEPT !.err = Nil,
                                 !.again = st.failed,
                                 !.ret = Append(@, segment),
                                 !.rl[segment] = @ + 1])

RECURSIVE PinRange(_, _)
PinRange(plan, st) ==
  IF plan = <<>> THEN st ELSE PinRange(Tail(plan), PinVisit(Head(plan).hs, st))

Holding(list) == [h \in Handles |-> held[h] + Count(list, h)]

GetAndPinBy(filters) ==
  \E plan \in rangeWithFilter(filters) :
    LET st == PinRange(plan, [ret |-> <<>>, err |-> Nil, rl |-> rlocks, failed |-> FALSE,
                              again |-> FALSE])
    IN /\ CanRLock
       /\ \A h \in Handles : Holding(st.ret)[h] <= MaxPins
       /\ rlocks' = IF st.err # Nil THEN RUnlockAll(st.rl, st.ret) ELSE st.rl
       /\ held' = Holding(st.ret)
       /\ last' = [op |-> "GetAndPinBy", filters |-> filters, ret |-> st.ret,
                   err |-> Nil, failed |-> st.failed, unlocked |-> st.err # Nil,
                   again |-> st.again]
       /\ UNCHANGED <<growingSegments, sealedSegments, version, relCount,
                      writer, deferred, upd, fatal>>

\* ------------------------------------------------------------- GetAndPin
\* mutant: the sealed segment is returned without its read lock
RECURSIVE PinLoopNoRLock(_, _, _)
PinLoopNoRLock(segments, filters, st) ==
  IF segments = <<>> \/ st.err # Nil THEN st
  ELSE LET id == Head(segments)
           growing == growingSegments[id]
           sealed == sealedSegments[id]
           growingExist == growing # Nil /\ filter(growing, filters)
           sealedExist == sealed # Nil /\ filter(sealed, filters)
       IN IF sealed # Nil /\ Seg[sealed].level = SegmentLevel_L0
          THEN PinLoopNoRLock(Tail(segments), filters, st)
          ELSE IF growingExist /\ RLockFails(growing)
          THEN [st EXCEPT !.err = ErrSegmentReleased, !.failed = TRUE]
          ELSE LET st1 == IF growingExist
                          THEN [st EXCEPT !.lockedSegments = Append(@, growing),
                                          !.rl[growing] = @ + 1]
                          ELSE st
               IN IF sealedExist /\ RLockFails(sealed)
                  THEN [st1 EXCEPT !.err = ErrSegmentReleased, !.failed = TRUE]
                  ELSE LET st2 == IF sealedExist
                                  THEN [st1 EXCEPT !.lockedSegments = Append(@, sealed)]
                                  ELSE st1
                       IN IF ~growingExist /\ ~sealedExist
                          THEN [st2 EXCEPT !.err = ErrSegmentNotLoaded]
                          ELSE PinLoopNoRLock(Tail(segments), filters, st2)

\* mutant: the loop does not skip an id whose sealed segment is of level L0
RECURSIVE PinLoopL0(_, _, _)
PinLoopL0(segments, filters, st) ==
  IF segments = <<>> \/ st.err # Nil THEN st
  ELSE LET id == Head(segments)
           growing == growingSegments[id]
           sealed == sealedSegments[id]
           growingExist == growing # Nil /\ filter(growing, filters)
           sealedExist == sealed # Nil /\ filter(sealed, filters)
       IN IF FALSE
          THEN PinLoopL0(Tail(segments), filters, st)
          ELSE IF growingExist /\ RLockFails(growing)
          THEN [st EXCEPT !.err = ErrSegmentReleased, !.failed = TRUE]
          ELSE LET st1 == IF growingExist
                          THEN [st EXCEPT !.lockedSegments = Append(@, growing),
                                          !.rl[growing] = @ + 1]
                          ELSE st
               IN IF sealedExist /\ RLockFails(sealed)
                  THEN [st1 EXCEPT !.err = ErrSegmentReleased, !.failed = TRUE]
                  ELSE LET st2 == IF sealedExist
                                  THEN [st1 EXCEPT !.lockedSegments = Append(@, sealed),
                                                   !.rl[sealed] = @ + 1]
                                  ELSE st1
                       IN IF ~growingExist /\ ~sealedExist
                          THEN [st2 EXCEPT !.err = ErrSegmentNotLoaded]
                          ELSE PinLoopL0(Tail(segments), filters, st2)

RECURSIVE PinLoop(_, _, _)
PinLoop(segments, filters, st) ==
  IF segments = <<>> \/ st.err # Nil THEN st
  ELSE LET id == Head(segments)
           growing == growingSegments[id]
           sealed == sealedSegments[id]
           growingExist == growing # Nil /\ filter(growing, filters)
           sealedExist == sealed # Nil /\ filter(sealed, filters)
       IN IF sealed # Nil /\ Seg[sealed].level = SegmentLevel_L0
          THEN PinLoop(Tail(segments), filters, st)
          ELSE IF growingExist /\ RLockFails(growing)
          THEN [st EXCEPT !.err = ErrSegmentReleased, !.failed = TRUE]
          ELSE LET st1 == IF growingExist
                          THEN [st EXCEPT !.lockedSegments = Append(@, growing),
                                          !.rl[growing] = @ + 1]
                          ELSE st
               IN IF sealedExist /\ RLockFails(sealed)
                  THEN [st1 EXCEPT !.err = ErrSegmentReleased, !.failed = TRUE]
                  ELSE LET st2 == IF sealedExist
                                  THEN [st1 EXCEPT !.lockedSegments = Append(@, sealed),
                                                   !.rl[sealed] = @ + 1]
                                  ELSE st1
                       IN IF ~growingExist /\ ~sealedExist
                          THEN [st2 EXCEPT !.err = ErrSegmentNotLoaded]
                          ELSE PinLoop(Tail(segments), filters, st2)

\* mutant: the read locks taken are kept when the call fails
GetAndPinLeak(segments, filters) ==
  LET st == PinLoop(segments, filters,
                    [lockedSegments |-> <<>>, err |-> Nil, rl |-> rlocks, failed |-> FALSE])
      ret == IF st.err # Nil THEN <<>> ELSE st.lockedSegments
  IN /\ CanRLock
     /\ \A h \in Handles : Holding(ret)[h] <= MaxPins
     /\ rlocks' = st.rl
     /\ held' = Holding(ret)
     /\ last' = [op |-> "GetAndPin", ids |-> segments, filters |-> filters, ret |-> ret,
                 err |-> st.err, failed |-> st.failed, locked |-> st.lockedSegments]
     /\ UNCHANGED <<growingSegments, sealedSegments, version, relCount,
                    writer, deferred, upd, fatal>>

GetAndPin(segments, filters) ==
  LET st == PinLoop(segments, filters,
                    [lockedSegments |-> <<>>, err |-> Nil, rl |-> rlocks, failed |-> FALSE])
      ret == IF st.err # Nil THEN <<>> ELSE st.lockedSegments
  IN /\ CanRLock
     /\ \A h \in Handles : Holding(ret)[h] <= MaxPins
     /\ rlocks' = IF st.err # Nil THEN RUnlockAll(st.rl, st.lockedSegments) ELSE st.rl
     /\ held' = Holding(ret)
     /\ last' = [op |-> "GetAndPin", ids |-> segments, filters |-> filters, ret |-> ret,
                 err |-> st.err, failed |-> st.failed, locked |-> st.lockedSegments]
     /\ UNCHANGED <<growingSegments, sealedSegments, version, relCount,
                    writer, deferred, upd, fatal>>

\* ----------------------------------------------------------------- Unpin
\* RUnlock of a segment nobody has read-locked is fatal to the process
Unpin(segments) ==
  /\ Call
  /\ segments # {}
  /\ \A h \in segments : held[h] > 0
  /\ held' = [h \in Handles |-> IF h \in segments THEN held[h] - 1 ELSE held[h]]
  /\ IF \E h \in segments : rlocks[h] = 0
     THEN fatal' = TRUE /\ UNCHANGED rlocks
     ELSE /\ rlocks' = [h \in Handles |-> IF h \in segments THEN rlocks[h] - 1 ELSE rlocks[h]]
          /\ UNCHANGED fatal
  /\ last' = [op |-> "Unpin", segments |-> segments]
  /\ UNCHANGED <<growingSegments, sealedSegments, version, relCount, writer, deferred, upd>>

\* ----------------------------------------------------------------- GetBy
GetBy(filters) ==
  \E plan \in rangeWithFilter(filters) :
    /\ CanRLock
    /\ last' = [op |-> "GetBy", filters |-> filters, ret |-> Flatten(plan)]
    /\ UNCHANGED <<growingSegments, sealedSegments, version, rlocks, relCount, held,
                   writer, deferred, upd, fatal>>

\* -------------------------------------------------------------- UpdateBy
\* UpdateBy(IncreaseVersion(v), filters...) holds mgr.mu as a reader while
\* it visits the segments; IncreaseVersion reads the version once and
\* then tries CASVersion until it succeeds
UpdateDone(u, n) ==
  /\ upd' = [upd EXCEPT ![u] = Idle]
  /\ last' = [op |-> "UpdateBy", updated |-> n]

\* the action has returned for a segment: on to the next one, or return
UpdateNext(u, v, todo, n) ==
  IF todo = <<>> THEN UpdateDone(u, n)
  ELSE /\ upd' = [upd EXCEPT ![u] = [pc |-> "read", v |-> v, todo |-> todo, oldVersion |-> 0,
                                      updated |-> n, spin |-> FALSE]]
       /\ UNCHANGED last

\* IncreaseVersion(v) is called for the first segment of todo:
\* oldVersion := segment.Version(), and the loop ends at once, with the
\* result false, when oldVersion >= version
UpdateVisit(u, v, todo, n) ==
  IF version[Head(todo)] < v
  THEN /\ upd' = [upd EXCEPT ![u] = [pc |-> "cas", v |-> v, todo |-> todo,
                                      oldVersion |-> version[Head(todo)],
                                      updated |-> n, spin |-> FALSE]]
       /\ UNCHANGED last
  ELSE UpdateNext(u, v, Tail(todo), n)

UpdateBy(u, v, filters) ==
  \E plan \in rangeWithFilter(filters) :
    /\ CanRLock
    /\ upd[u] = Idle
    /\ \A w \in Updaters : upd[w] = Idle => u <= w
    /\ IF Flatten(plan) = <<>>
       THEN UpdateDone(u, 0)
       ELSE UpdateVisit(u, v, Flatten(plan), 0)
    /\ UNCHANGED <<growingSegments, sealedSegments, version, rlocks, relCount, held,
                   writer, deferred, fatal>>

IncreaseVersionRead(u) ==
  /\ ~fatal /\ UNCHANGED calls
  /\ upd[u].pc = "read"
  /\ UpdateVisit(u, upd[u].v, upd[u].todo, upd[u].updated)
  /\ UNCHANGED <<growingSegments, sealedSegments, version, rlocks, relCount, held,
                 writer, deferred, fatal>>

\* segment.CASVersion(oldVersion, version); oldVersion is not read again
\* when the compare-and-swap fails
IncreaseVersionCAS(u) ==
  /\ ~fatal /\ UNCHANGED calls
  /\ upd[u].pc = "cas"
  /\ LET segment == Head(upd[u].todo)
     IN IF version[segment] = upd[u].oldVersion
        THEN /\ version' = [version EXCEPT ![segment] = upd[u].v]
             /\ UpdateNext(u, upd[u].v, Tail(upd[u].todo), upd[u].updated + 1)
        ELSE /\ ~upd[u].spin
             /\ upd' = [upd EXCEPT ![u].spin = TRUE]
             /\ UNCHANGED <<version, last>>
  /\ UNCHANGED <<growingSegments, sealedSegments, rlocks, relCount, held,
                 writer, deferred, fatal>>

\* -------------------------------------------------------- the disk cache
\* the loader of the cache, called on a miss of key: it looks the sealed
\* segment up under mgr.mu.RLock and loads its fields; the cache stores
\* the segment when the loader found and loaded it
Loader(key, loaded) ==
  /\ CanRLock
  /\ DiskCache[key] = Nil
  /\ LET segment == sealedSegments[key]
     IN IF segment = Nil \/ ~loaded
        THEN /\ UNCHANGED DiskCache
             /\ last' = [op |-> "Loader", key |-> key, segment |-> Nil, ok |-> FALSE]
        ELSE /\ DiskCache' = [DiskCache EXCEPT ![key] = segment]
             /\ last' = [op |-> "Loader", key |-> key, segment |-> segment, ok |-> TRUE]
  /\ UNCHANGED finalizer
  /\ UNCHANGED <<loadVars, msg>>
  /\ UNCHANGED registryVars

\* the cache evicts the entry of key and calls the finalizer, which calls
\* segment.Release with the scope Data
Finalizer(key) ==
  /\ Call
  /\ DiskCache[key] # Nil
  /\ DiskCache' = [DiskCache EXCEPT ![key] = Nil]
  /\ finalizer' = [op |-> "Release", key |-> key, segment |-> DiskCache[key],
                    released |-> relCount[DiskCache[key]] > 0]
  /\ last' = [op |-> "Finalizer", key |-> key]
  /\ UNCHANGED <<loadVars, msg>>
  /\ UNCHANGED registryVars

\* ---------------------------------------- the loader, one step at a time
ErrCollectionNotLoaded == "CollectionNotLoaded"
ErrLoadFailed == "LoadFailed"

\* mutant: every caller runs the function it passes to sf.Do
LoaderLookupNoFlight(l, key) ==
  /\ CanRLock
  /\ ld[l] = Idle
  /\ DiskCache[key] = Nil
  /\ LET segment == sealedSegments[key]
     IN IF segment = Nil
        THEN /\ last' = [op |-> "Loader", key |-> key, segment |-> Nil, ok |-> FALSE,
                         err |-> Nil]
             /\ UNCHANGED <<ld, sf, flights>>
        ELSE /\ flights' = flights + 1
             /\ sf' = [sf EXCEPT ![key] = [leader |-> l, flight |-> flights + 1]]
             /\ ld' = [ld EXCEPT ![l] = [pc |-> "load", key |-> key, segment |-> segment,
                                          flight |-> flights + 1, err |-> Nil]]
             /\ UNCHANGED last
  /\ UNCHANGED <<cacheVars, sizer, msg>>
  /\ UNCHANGED registryVars

\* the loader is called on a miss of key: mgr.mu.RLock, the lookup in the
\* sealed map, and the entry into sf.Do, where the first caller of a key
\* runs the function and a caller that finds a call in flight waits for it
LoaderLookup(l, key) ==
  /\ CanRLock
  /\ ld[l] = Idle
  /\ DiskCache[key] = Nil
  /\ LET segment == sealedSegments[key]
     IN IF segment = Nil
        THEN /\ last' = [op |-> "Loader", key |-> key, segment |-> Nil, ok |-> FALSE,
                         err |-> Nil]
             /\ UNCHANGED <<ld, sf, flights>>
        ELSE IF sf[key] = NoFlight
        THEN /\ flights' = flights + 1
             /\ sf' = [sf EXCEPT ![key] = [leader |-> l, flight |-> flights + 1]]
             /\ ld' = [ld EXCEPT ![l] = [pc |-> "load", key |-> key, segment |-> segment,
                                          flight |-> flights + 1, err |-> Nil]]
             /\ UNCHANGED last
        ELSE /\ ld' = [ld EXCEPT ![l] = [pc |-> "wait", key |-> key, segment |-> segment,
                                          flight |-> sf[key].flight, err |-> Nil]]
             /\ UNCHANGED <<sf, flights, last>>
  /\ UNCHANGED <<cacheVars, sizer, msg>>
  /\ UNCHANGED registryVars

\* the function of sf.Do ends with err (the collection is not loaded, the
\* field load failed, or nil): the caller that ran it and the callers that
\* waited for it get err, and the group forgets the key
LoadFields(l, err) ==
  /\ ~fatal /\ UNCHANGED calls
  /\ ld[l].pc = "load"
  /\ ld' = [w \in Loaders |->
              IF w = l \/ (ld[w].pc = "wait" /\ ld[w].flight = ld[l].flight)
              THEN [ld[w] EXCEPT !.pc = "ret", !.err = err]
              ELSE ld[w]]
  /\ sf' = [sf EXCEPT ![ld[l].key] = IF @.leader = l THEN NoFlight ELSE @]
  /\ UNCHANGED <<cacheVars, flights, sizer, msg, last>>
  /\ UNCHANGED registryVars

\* mutant: the loader returns the segment whatever sf.Do returned
LoaderReturnAny(l) ==
  /\ ~fatal /\ UNCHANGED calls
  /\ ld[l].pc = "ret"
  /\ ld' = [ld EXCEPT ![l] = [pc |-> "size", key |-> ld[l].key, segment |-> ld[l].segment]]
  /\ last' = [op |-> "Loader", key |-> ld[l].key, segment |-> ld[l].segment,
               ok |-> TRUE, err |-> ld[l].err]
  /\ UNCHANGED <<cacheVars, sf, flights, sizer, msg>>
  /\ UNCHANGED registryVars

\* the loader returns and unlocks mgr.mu: (nil, false) when sf.Do returned
\* an error, (segment, true) otherwise, and then the cache asks the sizer
LoaderReturn(l) ==
  /\ ~fatal /\ UNCHANGED calls
  /\ ld[l].pc = "ret"
  /\ IF ld[l].err # Nil
     THEN /\ ld' = [ld EXCEPT ![l] = Idle]
          /\ last' = [op |-> "Loader", key |-> ld[l].key, segment |-> Nil,
                       ok |-> FALSE, err |-> ld[l].err]
     ELSE /\ ld' = [ld EXCEPT ![l] = [pc |-> "size", key |-> ld[l].key,
                                       segment |-> ld[l].segment]]
          /\ last' = [op |-> "Loader", key |-> ld[l].key, segment |-> ld[l].segment,
                       ok |-> TRUE, err |-> Nil]
  /\ UNCHANGED <<cacheVars, sf, flights, sizer, msg>>
  /\ UNCHANGED registryVars

\* the sizer of the cache, called for the key of a loaded segment: it
\* reads mgr.sealedSegments[key] without mgr.mu and calls a method of what
\* it finds; on a nil Segment the process dies
Sizer(l) ==
  /\ ~fatal /\ UNCHANGED calls
  /\ ld[l].pc = "size"
  /\ sizer' = [op |-> "call", key |-> ld[l].key,
                found |-> sealedSegments[ld[l].key] # Nil,
                writing |-> writer # NoWriter]
  /\ ld' = [ld EXCEPT ![l] = Idle]
  /\ IF sealedSegments[ld[l].key] = Nil
     THEN fatal' = TRUE /\ UNCHANGED DiskCache
     ELSE /\ DiskCache' = [DiskCache EXCEPT ![ld[l].key] = ld[l].segment]
          /\ UNCHANGED fatal
  /\ UNCHANGED <<finalizer, sf, flights, msg, last>>
  /\ UNCHANGED <<growingSegments, sealedSegments, version, rlocks, relCount, held,
                 writer, deferred, upd>>

\* ------------------------------------------- the messages of a stream
\* what proto.Unmarshal makes of the input: an error, or a request with
\* its list of timestamps
Inputs ==
  {[ok |-> FALSE, Timestamps |-> <<>>]}
    \cup {[ok |-> TRUE, Timestamps |-> ts] : ts \in SeqsUpTo(0..MaxTs, MaxTsLen)}

\* the message made of the request: BaseMsg has its zero value
NewMsg(kind, ts) ==
  [op |-> "Unmarshal", kind |-> kind, err |-> Nil, Timestamps |-> ts,
   BeginTimestamp |-> 0, EndTimestamp |-> 0]

\* mutant: the first loop is left out
TsFirstSkipped(m) == m

\* the first loop: both timestamps are set to the first of the list
TsFirst(m) ==
  IF m.Timestamps = <<>> THEN m
  ELSE [m EXCEPT !.BeginTimestamp = m.Timestamps[1], !.EndTimestamp = m.Timestamps[1]]

\* the second loop, over the timestamps ts still to come
RECURSIVE TsMinMax(_, _)
TsMinMax(m, ts) ==
  IF ts = <<>> THEN m
  ELSE LET timestamp == Head(ts)
           m1 == IF timestamp > m.EndTimestamp
                 THEN [m EXCEPT !.EndTimestamp = timestamp] ELSE m
           m2 == IF timestamp < m1.BeginTimestamp
                 THEN [m1 EXCEPT !.BeginTimestamp = timestamp] ELSE m1
       IN TsMinMax(m2, Tail(ts))

ErrUnmarshal == "proto: cannot parse"

InsertMsgUnmarshal(input) ==
  /\ msg' = IF ~input.ok
            THEN [op |-> "Unmarshal", kind |-> "Insert", err |-> ErrUnmarshal]
            ELSE TsMinMax(TsFirst(NewMsg("Insert", input.Timestamps)), input.Timestamps)
  /\ UNCHANGED <<registryVars, cacheVars, loadVars, calls, last>>

DeleteMsgUnmarshal(input) ==
  /\ msg' = IF ~input.ok
            THEN [op |-> "Unmarshal", kind |-> "Delete", err |-> ErrUnmarshal]
            ELSE TsMinMax(TsFirst(NewMsg("Delete", input.Timestamps)), input.Timestamps)
  /\ UNCHANGED <<registryVars, cacheVars, loadVars, calls, last>>

\* ------------------------------------------------------- the specification
\* the filter lists UpdateBy is called with
UpdateFilters == {<<>>, <<WithID(7)>>, <<WithType(SegmentTypeSealed)>>}

\* the segment lists Put is called with
PutLists == {<<h>> : h \in Handles}

\* the id lists GetAndPin is called with
IDLists == {<<7>>, <<11>>, <<7, 11>>, <<11, 7>>}

\* writers, their releases, and the pinning readers
Registry ==
  \/ \E t \in {SegmentTypeGrowing, SegmentTypeSealed},
        segments \in PutLists : Put(t, segments)
  \/ \E id \in IDs, scope \in DataScopes : Remove(id, scope)
  \/ \E filters \in FilterLists : RemoveBy(filters)
  \/ Clear
  \/ \E list \in BagToSet(deferred) : remove(list)

Pinning ==
  \/ \E filters \in FilterLists : GetAndPinBy(filters)
  \/ \E segments \in IDLists, filters \in FilterLists : GetAndPin(segments, filters)
  \/ \E segments \in SUBSET Handles : Unpin(segments)

Updating ==
  \/ \E u \in Updaters, v \in 2..MaxVersion, filters \in UpdateFilters : UpdateBy(u, v, filters)
  \/ \E u \in Updaters : IncreaseVersionRead(u)
  \/ \E u \in Updaters : IncreaseVersionCAS(u)

Next == (Registry \/ WriterResume \/ Pinning) /\ UNCHANGED <<cacheVars, loadVars, msg>>

Spec == Init /\ [][Next]_vars

\* the registry under concurrent version updates
NextVersion == (Registry \/ Updating) /\ UNCHANGED <<cacheVars, loadVars, msg>>

SpecVersion == Init /\ [][NextVersion]_vars

\* the registry when Put is also called with segments of the other type
NextAnyPut ==
  /\ \/ Registry
     \/ \E t \in {SegmentTypeGrowing, SegmentTypeSealed},
           segments \in PutLists : PutAny(t, segments)
     \/ \E segments \in PutLists : PutPanics(SegmentStateNone, segments)
  /\ UNCHANGED <<cacheVars, loadVars, msg>>

SpecAnyPut == Init /\ [][NextAnyPut]_vars

\* the filter lists GetBy is called with: also several id hints, several
\* type hints, and hints together with other filters
QueryFilters ==
  FilterLists \cup
    {<<WithID(7), WithID(11)>>,
     <<WithType(SegmentTypeGrowing), WithType(SegmentTypeSealed)>>,
     <<WithID(7), WithType(SegmentTypeSealed)>>,
     <<WithLevel(SegmentLevel_L0), WithID(11)>>}

\* the registry and its filtered lookups
NextFilters ==
  /\ \/ Registry
     \/ \E filters \in QueryFilters : GetBy(filters)
  /\ UNCHANGED <<cacheVars, loadVars, msg>>

\* the registry and the disk cache of its sealed segments
NextCache ==
  \/ Registry /\ UNCHANGED <<cacheVars, loadVars, msg>>
  \/ \E key \in IDs, loaded \in BOOLEAN : Loader(key, loaded)
  \/ \E key \in IDs : Finalizer(key)

SpecCache == Init /\ [][NextCache]_vars

\* the registry and concurrent loads of the disk cache
NextLoad ==
  \/ Registry /\ UNCHANGED <<cacheVars, loadVars, msg>>
  \/ \E l \in Loaders, key \in IDs : LoaderLookup(l, key)
  \/ \E l \in Loaders, err \in {Nil, ErrCollectionNotLoaded, ErrLoadFailed} : LoadFields(l, err)
  \/ \E l \in Loaders : LoaderReturn(l)
  \/ \E l \in Loaders : Sizer(l)

SpecLoad == Init /\ [][NextLoad]_vars

\* the messages unmarshalled from a stream
NextMsg ==
  \/ \E input \in Inputs : InsertMsgUnmarshal(input)
  \/ \E input \in Inputs : DeleteMsgUnmarshal(input)

SpecMsg == Init /\ [][NextMsg]_vars

SpecFilters == Init /\ [][NextFilters]_vars

\* ------------------------------------------------------------ properties
Registered(h) == growingSegments[Seg[h].id] = h \/ sealedSegments[Seg[h].id] = h
Stored == {h \in Handles : Registered(h)}
InBoth(id) == growingSegments[id] # Nil /\ sealedSegments[id] # Nil
\* the step is a call of op
Called(op) == calls' = calls + 1 /\ last'.op = op

\* C1: a segment that a successful GetAndPin or GetAndPinBy handed to its
\* caller is not released (Release with scope All) before the caller has
\* unpinned it.
C1_PinSafety == \A h \in Handles : held[h] > 0 => relCount[h] = 0

\* C2: the version stored under an id in a map never decreases while the
\* id stays in that map, and a Put that changes the entry of an id strictly
\* increases the stored version.
StoredVersionGrows(map, map2) ==
  \A id \in IDs :
    (map[id] # Nil /\ map2[id] # Nil) =>
       /\ version'[map2[id]] >= version[map[id]]
       /\ (map2[id] # map[id] => version'[map2[id]] > version[map[id]])

C3_Exclusivity == \A id \in IDs : ~InBoth(id)

\* C3 (amended): an id becomes a key of both maps only by a Put of a
\* segment with that id into the map that lacked it; Put writes the map of
\* its segmentType argument only, and no other operation adds a key.
C3_OnlyPutAddsTwin ==
  [][\A id \in IDs :
       (InBoth(id)' /\ ~InBoth(id)) =>
          /\ Called("Put")
          /\ \E i \in DOMAIN last'.segments : Seg[last'.segments[i]].id = id
          /\ MapOf(last'.type)[id] = Nil
          /\ IF last'.type = SegmentTypeGrowing
             THEN sealedSegments' = sealedSegments
             ELSE growingSegments' = growingSegments]_vars

C3_Witness == \E id \in IDs : InBoth(id) /\ last.op = "Put"

\* C4 (as claimed): every stored segment has the type of its map, whatever
\* was passed to Put.
C4_TypeAgreement ==
  \A id \in IDs :
    /\ growingSegments[id] # Nil => Seg[growingSegments[id]].type = SegmentTypeGrowing
    /\ sealedSegments[id] # Nil => Seg[sealedSegments[id]].type = SegmentTypeSealed

\* C4 (amended): type agreement is kept by every operation except a Put
\* that is passed a segment whose Type() is not the segmentType argument:
\* Put stores a segment in the map its argument names.
MistypedPut ==
  /\ Called("Put")
  /\ \E i \in DOMAIN last'.segments : Seg[last'.segments[i]].type # last'.type

C4_TypedPutKeepsAgreement ==
  [][(C4_TypeAgreement /\ ~MistypedPut) => C4_TypeAgreement']_vars

C4_Witness ==
  /\ C4_TypeAgreement
  /\ last.op = "Put"
  /\ \A i \in DOMAIN last.segments :
        /\ Seg[last.segments[i]].type = last.type
        /\ last.segments[i] = MapOf(last.type)[Seg[last.segments[i]].id]

\* C5: a segment that is a value of the growing or the sealed map has not
\* been released.
C5_StoredNotReleased == \A h \in Stored : relCount[h] = 0

\* C6 (as claimed): a segment handed out by a successful GetAndPin or
\* GetAndPinBy stays registered until it is unpinned.
C6_StaysRegistered == \A h \in Handles : held[h] > 0 => Registered(h)

\* C6 (amended): a segment returned by GetAndPin or GetAndPinBy is
\* registered when the call returns, and one returned by a successful
\* GetAndPin is read-locked and not released at that moment; it need not
\* stay registered until Unpin.
C6_RegisteredAtReturn ==
  [][/\ (Called("GetAndPin") \/ Called("GetAndPinBy")) =>
           \A h \in Range(last'.ret) : Registered(h)'
     /\ Called("GetAndPin") =>
           \A h \in Range(last'.ret) :
              /\ rlocks'[h] = rlocks[h] + Count(last'.ret, h)
              /\ relCount'[h] = 0]_vars

C6_Witness ==
  \E h \in Handles : held[h] > 0 /\ rlocks[h] > 0 /\ ~Registered(h) /\ relCount[h] = 0

\* C7: when an RLock fails in GetAndPinBy the call returns that error and
\* no segment, with every read lock it took released.
C7_PinByError ==
  (last.op = "GetAndPinBy" /\ last.failed) => (last.err # Nil /\ last.ret = <<>>)

\* C8: GetAndPin is all or nothing: when a requested id that is no L0
\* sealed hit has no registered segment passing the filters, or an RLock
\* fails, it returns an error (SegmentNotLoaded for a missing id) and no
\* segment, and the read locks are as before the call; otherwise it returns
\* without error with every match read-locked.
L0Hit(id) ==
  sealedSegments[id] # Nil /\ Seg[sealedSegments[id]].level = SegmentLevel_L0
Matches(id, filters) ==
  {h \in {growingSegments[id], sealedSegments[id]} \ {Nil} : filter(h, filters)}
Missing(id, filters) == ~L0Hit(id) /\ Matches(id, filters) = {}
Refused(id, filters) == ~L0Hit(id) /\ \E h \in Matches(id, filters) : relCount[h] > 0

C8_AllOrNothing ==
  [][Called("GetAndPin") =>
       LET ids == Range(last'.ids)
           fs == last'.filters
           bad == \E id \in ids : Missing(id, fs) \/ Refused(id, fs)
       IN /\ bad => /\ last'.err # Nil
                    /\ last'.ret = <<>>
                    /\ rlocks' = rlocks
                    /\ held' = held
          /\ last'.err = ErrSegmentNotLoaded => \E id \in ids : Missing(id, fs)
          /\ ~bad => /\ last'.err = Nil
                     /\ \A h \in Handles :
                          rlocks'[h] = rlocks[h] + Count(last'.ret, h)]_vars

C8_Witness ==
  /\ last.op = "GetAndPin"
  /\ last.err = ErrSegmentNotLoaded
  /\ last.locked # <<>>
  /\ \A h \in Handles : rlocks[h] = 0

\* C9: GetAndPin and GetAndPinBy never read-lock and never return a
\* sealed segment of level L0.
IsL0(h) == Seg[h].type = SegmentTypeSealed /\ Seg[h].level = SegmentLevel_L0

OnlyL0(id) == growingSegments[id] = Nil /\ L0Hit(id)
PinOf11 == last.op = "GetAndPin" /\ last.ids = <<11>> /\ last.filters = <<>>

C10_L0NotLoaded == (OnlyL0(11) /\ PinOf11) => last.err = ErrSegmentNotLoaded

\* C10 (amended): there GetAndPin([11]) returns without error and with no
\* segment, and GetAndPinBy(WithType(Sealed)) returns a list without the L0
\* segment, the empty list when no other sealed segment is registered.
C10_L0Skipped ==
  /\ (OnlyL0(11) /\ PinOf11) => (last.err = Nil /\ last.ret = <<>>)
  /\ (OnlyL0(11) /\ last.op = "GetAndPinBy"
        /\ last.filters = <<WithType(SegmentTypeSealed)>>) =>
       /\ sealedSegments[11] \notin Range(last.ret)
       /\ sealedSegments[7] = Nil => last.ret = <<>>

C10_Witness == OnlyL0(11) /\ PinOf11 /\ \A h \in Handles : rlocks[h] = 0

\* C11: a Put that rejects a segment s, because the entry old with the id
\* of s in the target map has a version >= the version of s, leaves both
\* maps unchanged, releases s once and does not release old.
C11_RejectKeepsOld ==
  [][(Called("Put") /\ last'.rejected # <<>>) =>
       LET s == last'.rejected[1]
           old == MapOf(last'.type)[Seg[s].id]
       IN /\ growingSegments' = growingSegments
          /\ sealedSegments' = sealedSegments
          /\ relCount'[old] = relCount[old]
          /\ writer' = NoWriter => relCount'[s] = relCount[s] + 1]_vars

\* C12: after a Put that replaced the entry s1 of an id by a segment s2 of
\* a higher version, the target map holds s2 under that id, s2 is not
\* released, and s1 is released once and not a second time.
C12_ReplaceReleasesOnce ==
  (last.op = "Put" /\ last.replaced # <<>>) =>
     LET s2 == last.segments[1]
         s1 == last.replaced[1]
     IN /\ MapOf(last.type)[Seg[s2].id] = s2
        /\ version[s1] < version[s2]
        /\ relCount[s2] = 0
        /\ relCount[s1] <= 1

\* C13: every segment handle that was stored by a Put is released with
\* scope All once and not a second time.
C13_ReleasedOnce == \A h \in Handles : relCount[h] <= 1

\* C14: GetBy returns exactly the registered segments for which every
\* filter of the list is true, each of them once, also for a list with
\* several WithID or several WithType filters.
C14_Conjunctive ==
  last.op = "GetBy" =>
     /\ Range(last.ret) = {h \in Stored : filter(h, last.filters)}
     /\ Len(last.ret) = Cardinality(Range(last.ret))

\* C15: IncreaseVersion never retries forever: an updater that is about
\* to call CASVersion(oldVersion, v) finds the version it read, or the
\* loop ends; the stored version never exceeds the oldVersion of a
\* compare-and-swap that is still to be tried.
C15_CASTerminates ==
  \A u \in Updaters :
     upd[u].pc = "cas" => version[Head(upd[u].todo)] <= upd[u].oldVersion

\* C16 (as claimed): in any registry state, Put(type, s) followed by
\* Remove(s.id, All) leaves both maps as they were before the Put.
PutThenRemove ==
  /\ Called("Remove") /\ last'.scope = DataScope_All
  /\ last.op = "Put" /\ Seg[last.segments[1]].id = last'.id

C16_RoundTrip ==
  [][PutThenRemove => <<growingSegments', sealedSegments'>> = last.before]_vars

\* C16 (amended): when neither map holds a segment with the id of s,
\* Put(type, s) followed by Remove(s.id, All) leaves both maps as they were
\* before the Put, and s is handed to one release.
FreshPut ==
  /\ last.before[1][Seg[last.segments[1]].id] = Nil
  /\ last.before[2][Seg[last.segments[1]].id] = Nil

C16_RoundTripFresh ==
  [][(PutThenRemove /\ FreshPut) =>
       /\ <<growingSegments', sealedSegments'>> = last.before
       /\ relCount[last.segments[1]] = 0
       /\ deferred' = deferred (+) SetToBag({<<last.segments[1]>>})]_vars

C16_Witness ==
  /\ calls = 2
  /\ last.op = "Remove" /\ last.scope = DataScope_All
  /\ last.removeGrowing + last.removeSealed = 1
  /\ \A id \in IDs : growingSegments[id] = Nil /\ sealedSegments[id] = Nil

\* C17: GetAndPinBy followed by Unpin of the returned list leaves the read
\* locks of every segment as they were: every reference handed out as
\* pinned has its read lock, and Unpin never unlocks a segment that is
\* not read-locked.
C17_PinRoundTrip ==
  /\ ~fatal
  /\ \A h \in Handles : rlocks[h] = held[h]

\* C18: Remove and RemoveBy release nothing while they hold mgr.mu: the
\* call deletes the segments from the maps, unlocks, and only then are the
\* deleted segments released, one list per call, outside the lock.
Deleted == Stored \ {h \in Handles : Registered(h)'}

C18_ReleaseOutsideLock ==
  [][(Called("Remove") \/ Called("RemoveBy")) =>
       /\ relCount' = relCount
       /\ writer' = NoWriter
       /\ Deleted = {} => deferred' = deferred
       /\ Deleted # {} =>
             \E list \in BagToSet(deferred') :
                /\ Range(list) = Deleted
                /\ deferred' = deferred (+) SetToBag({list})]_vars

C18_Witness ==
  /\ last.op \in {"Remove", "RemoveBy"}
  /\ last.removeGrowing + last.removeSealed > 0
  /\ writer = NoWriter
  /\ \E list \in BagToSet(deferred) : rlocks[Head(list)] > 0 /\ relCount[Head(list)] = 0

\* C19: Clear runs no Release while it holds mgr.mu: the call changes no
\* release count and never waits in a Release with the lock held.
C19_ClearDefers ==
  [][Called("Clear") => (relCount' = relCount /\ writer' = NoWriter)]_vars

\* C20: a sealed segment that is removed from the registry is removed from
\* the disk cache too: the cache holds only registered sealed segments,
\* and the finalizer is never called on a segment that has been released
\* with the scope All.
C20_CacheFollowsRegistry ==
  /\ \A key \in IDs : DiskCache[key] # Nil => sealedSegments[key] = DiskCache[key]
  /\ finalizer.op = "Release" => ~finalizer.released

\* C21: at most one field load of an id is in flight at a time, a caller
\* waits only for a load of its id that is in flight, the callers of one
\* flight get the same segment and the same error, and a load that has
\* ended, failed or not, is forgotten, so that the next miss of the id
\* runs the field load again.
InFlight(key) == {l \in Loaders : ld[l].pc = "load" /\ ld[l].key = key}
Flying == {l \in Loaders : ld[l].pc \in {"load", "wait", "ret"}}

C21_SingleFlight ==
  /\ \A key \in IDs :
        /\ Cardinality(InFlight(key)) <= 1
        /\ sf[key] # NoFlight <=> InFlight(key) # {}
        /\ sf[key] # NoFlight => ld[sf[key].leader].flight = sf[key].flight
  /\ \A l \in Loaders :
        ld[l].pc = "wait" => /\ sf[ld[l].key] # NoFlight
                             /\ sf[ld[l].key].flight = ld[l].flight
  /\ \A l, w \in Flying :
        ld[l].flight = ld[w].flight =>
           /\ ld[l].key = ld[w].key
           /\ ld[l].segment = ld[w].segment
           /\ (ld[l].pc = "ret" /\ ld[w].pc = "ret") => ld[l].err = ld[w].err

C21_Witness ==
  /\ flights = 2
  /\ \E l, w \in Loaders :
        /\ l # w /\ ld[l].pc = "ret" /\ ld[w].pc = "ret"
        /\ ld[l].flight = 2 /\ ld[w].flight = 2
        /\ ld[l].err = ErrLoadFailed

\* C22: the loader returns (nil, false) when the id is not in the sealed
\* map at its lookup, when the collection is not loaded and when the field
\* load fails; it returns (segment, true) only for the segment that is in
\* the sealed map under the key while the loader holds mgr.mu and whose
\* field load succeeded; no step of the loader changes the maps.
NotFoundStep == calls' = calls + 1 /\ ld' = ld /\ last'.op = "Loader"
LookupStep(l) == calls' = calls + 1 /\ ld[l] = Idle /\ ld'[l] # Idle
ReturnedBy(l) == ld[l].pc = "ret" /\ ld'[l].pc # "ret"

C22_LoaderOutcome ==
  [][/\ NotFoundStep =>
          /\ sealedSegments[last'.key] = Nil
          /\ ~last'.ok /\ last'.segment = Nil
     /\ \A l \in Loaders :
          /\ LookupStep(l) => sealedSegments[ld'[l].key] = ld'[l].segment
          /\ ReturnedBy(l) =>
                /\ last'.op = "Loader" /\ last'.key = ld[l].key
                /\ last'.ok <=> ld[l].err = Nil
                /\ last'.ok => /\ last'.segment # Nil
                               /\ last'.segment = sealedSegments[last'.key]
                /\ ~last'.ok => last'.segment = Nil
     /\ (ld' # ld \/ NotFoundStep) =>
          /\ growingSegments' = growingSegments
          /\ sealedSegments' = sealedSegments]_vars

C22_Witness ==
  /\ last.op = "Loader" /\ ~last.ok
  /\ last.err = ErrCollectionNotLoaded
  /\ sealedSegments[last.key] # Nil
  /\ \E l \in Loaders : ld[l].pc = "ret" /\ ld[l].key = last.key

\* C23: a Put with a segment type that is neither Growing nor Sealed
\* panics before it touches any state: both maps are as before the call,
\* no segment is released and none is handed to a release.
C23_PanicTouchesNothing ==
  [][Called("PutPanic") =>
       /\ growingSegments' = growingSegments
       /\ sealedSegments' = sealedSegments
       /\ relCount' = relCount
       /\ deferred' = deferred
       /\ writer' = NoWriter]_vars

C23_Witness ==
  /\ last.op = "PutPanic"
  /\ Stored # {}
  /\ \E i \in DOMAIN last.segments :
        /\ MapOf(Seg[last.segments[i]].type)[Seg[last.segments[i]].id] \notin {Nil, last.segments[i]}
        /\ relCount[last.segments[i]] = 0

\* C24: Remove(id, Streaming) does not change the sealed map,
\* Remove(id, Historical) does not change the growing map, Remove(id, All)
\* leaves id in neither map; no entry of another id changes; each
\* component of the returned pair is 1 when this call deleted id from that
\* map and 0 otherwise.
C24_RemoveScope ==
  [][Called("Remove") =>
       LET id == last'.id
           scope == last'.scope
       IN /\ scope = DataScope_Streaming => sealedSegments' = sealedSegments
          /\ scope = DataScope_Historical => growingSegments' = growingSegments
          /\ scope = DataScope_All =>
                (growingSegments'[id] = Nil /\ sealedSegments'[id] = Nil)
          /\ scope # DataScope_Historical => growingSegments'[id] = Nil
          /\ scope # DataScope_Streaming => sealedSegments'[id] = Nil
          /\ \A i \in IDs \ {id} :
                /\ growingSegments'[i] = growingSegments[i]
                /\ sealedSegments'[i] = sealedSegments[i]
          /\ last'.removeGrowing \in {0, 1} /\ last'.removeSealed \in {0, 1}
          /\ last'.removeGrowing = 1 <=>
                (growingSegments[id] # Nil /\ growingSegments'[id] = Nil)
          /\ last'.removeSealed = 1 <=>
                (sealedSegments[id] # Nil /\ sealedSegments'[id] = Nil)]_vars

C24_Witness ==
  /\ last.op = "Remove" /\ last.scope = DataScope_Streaming
  /\ last.removeGrowing = 1 /\ last.removeSealed = 0
  /\ sealedSegments[last.id] # Nil
  /\ \E i \in IDs \ {last.id} : sealedSegments[i] # Nil

\* C25: in one filtered iteration the visitor is not called again once it
\* has returned false, neither for the map being scanned nor for the other
\* candidate map.
C25_ShortCircuit == last.op = "GetAndPinBy" => ~last.again

\* C26: when the cache calls its sizer for an id, the lookup of the id in
\* the sealed map finds a segment, and no writer holds mgr.mu at that
\* moment.
C26_SizerFindsSegment == sizer.op = "call" => (sizer.found /\ ~sizer.writing)

\* C27: after a successful Unmarshal of an insert or a delete message,
\* BeginTs is the least and EndTs the greatest of the message's
\* timestamps, whatever their order, and both are zero when the message has
\* no timestamp.
C27_BeginEndTs ==
  (msg.op = "Unmarshal" /\ msg.err = Nil) =>
     LET T == Range(msg.Timestamps)
     IN IF T = {}
        THEN msg.BeginTimestamp = 0 /\ msg.EndTimestamp = 0
        ELSE /\ msg.BeginTimestamp \in T /\ \A t \in T : msg.BeginTimestamp <= t
             /\ msg.EndTimestamp \in T /\ \A t \in T : t <= msg.EndTimestamp
             /\ msg.BeginTimestamp <= msg.EndTimestamp

C27_Witness ==
  /\ msg.op = "Unmarshal" /\ msg.err = Nil
  /\ Len(msg.Timestamps) = 3
  /\ msg.BeginTimestamp = msg.Timestamps[2]
  /\ msg.EndTimestamp = msg.Timestamps[3]
  /\ msg.BeginTimestamp > 0
  /\ msg.BeginTimestamp < msg.Timestamps[1] /\ msg.Timestamps[1] < msg.EndTimestamp

====
